---- MODULE Spec2Model ----
(***************************************************************************)
(* Model of the fact-checking pipeline backend:                            *)
(*   backend/scraper.py  - detect_platform, scrape and the retrievers      *)
(*   backend/main.py     - analyze_post                                    *)
(*   backend/claims.py   - extract_and_classify                            *)
(*                                                                         *)
(* Strings are sequences of tokens.  A token is a TLA+ string that stands  *)
(* for a run of characters; a text is written in one fixed tokenisation,   *)
(* so that equality of texts is equality of token sequences and a          *)
(* substring the code looks for is a token (or a run of tokens) of its     *)
(* own.  The empty Python string is << >>, Python's None is None.          *)
(***************************************************************************)
EXTENDS Integers, Sequences, FiniteSets, TLC

VARIABLES
    IS_SERVER,      \* scraper.py:30, fixed at import time
    pc,             \* position of the request in analyze_post / scrape / a retriever
    post,           \* PostInput: [url, text]
    platform,       \* scrape's local `platform`
    scraped,        \* the ScrapeResult returned by scrape (valid when hasScraped)
    hasScraped,     \* main.py `scraped` is not None
    text_to_analyze,\* main.py local
    playwright,     \* the sync_playwright() driver: "none", "started", "stopped"
    browser,        \* the persistent context: "none", "open", "closed"
    pageUrl,        \* page.url, the location the browser window shows
    polls,          \* polls of the wait_for_function predicate done so far
    entered,        \* states of the browser retriever's state machine entered
    calls,          \* external calls made so far
    sessionTouched, \* platforms whose session directory was handed to a browser
    result,         \* scrape_playwright's local `result`
    http,           \* scrape_reddit's `response`, while the function runs
    reply,          \* the text of the model's reply, None before there is one
    fault,          \* the external step of a retriever that failed, "none" if none did
    response,       \* what analyze_post returns (valid when pc = "done")
    raised          \* the exception that escaped, or None

vars == <<IS_SERVER, pc, post, platform, scraped, hasScraped, text_to_analyze,
          playwright, browser, pageUrl, polls, entered, calls, sessionTouched,
          result, http, reply, fault, response, raised>>

-----------------------------------------------------------------------------
(* Python values *)

None == <<"None">>

\* Python truthiness of an Optional[str] / str / list
Truthy(v) == v /= None /\ v /= << >>

\* whitespace tokens (str.strip() with no argument removes these)
WS == {" ", "\n", "\n\n"}

RECURSIVE LStrip(_)
LStrip(s) == IF s /= << >> /\ Head(s) \in WS THEN LStrip(Tail(s)) ELSE s

RECURSIVE RStrip(_)
RStrip(s) ==
    IF s /= << >> /\ s[Len(s)] \in WS THEN RStrip(SubSeq(s, 1, Len(s) - 1)) ELSE s

\* str.strip()
Strip(s) == RStrip(LStrip(s))

\* `tok in s` for a substring that is one token
Contains(s, tok) == \E i \in 1..Len(s) : s[i] = tok

\* `sub in s` for a substring that is a run of tokens
ContainsSeq(s, sub) ==
    \E i \in 0..(Len(s) - Len(sub)) : SubSeq(s, i + 1, i + Len(sub)) = sub

\* s.replace(tok, by), by a token sequence
RECURSIVE Replace(_, _, _)
Replace(s, tok, by) ==
    IF s = << >> THEN << >>
    ELSE (IF Head(s) = tok THEN by ELSE <<Head(s)>>) \o Replace(Tail(s), tok, by)

\* s[:n]; every token of user content counts as one character
Truncate(s, n) == IF Len(s) <= n THEN s ELSE SubSeq(s, 1, n)

\* str.lower() on the tokens that carry upper-case letters
LowerTok(t) ==
    CASE t = "WWW." -> "www."
      [] t = "Reddit.com" -> "reddit.com"
      [] t = "Facebook.com" -> "facebook.com"
      [] t = "Login" -> "login"
      [] OTHER -> t

Lower(s) == [i \in 1..Len(s) |-> LowerTok(s[i])]

-----------------------------------------------------------------------------
(* scraper.py: platform detection *)

\* tokens that end the network location
PathTokens == {"/", "?", "#"}

RECURSIVE UpToPath(_)
UpToPath(s) ==
    IF s = << >> \/ Head(s) \in PathTokens THEN << >>
    ELSE <<Head(s)>> \o UpToPath(Tail(s))

\* urlparse(url).netloc: what follows "//" up to the first "/", "?" or "#";
\* empty when the URL has no "//" after its (optional) scheme
Netloc(url) ==
    IF Len(url) >= 3 /\ url[1] \in {"https:", "http:"} /\ url[2] = "/" /\ url[3] = "/"
        THEN UpToPath(SubSeq(url, 4, Len(url)))
    ELSE IF Len(url) >= 2 /\ url[1] = "/" /\ url[2] = "/"
        THEN UpToPath(SubSeq(url, 3, Len(url)))
    ELSE << >>

\* urlparse raises ValueError("Invalid IPv6 URL") when the network location
\* holds one square bracket without the other
UrlparseRaises(url) ==
    LET netloc == Netloc(Lower(url)) IN
    Contains(netloc, "[") /= Contains(netloc, "]")

detect_platform(url) ==
    LET host == Replace(Netloc(Lower(url)), "www.", << >>) IN
    IF host \in {<<"twitter.com">>, <<"x.com">>, <<"mobile.", "twitter.com">>}
        THEN "twitter"
    ELSE IF Contains(host, "reddit.com") THEN "reddit"
    ELSE IF host \in {<<"youtube.com">>, <<"youtu.be">>, <<"m.", "youtube.com">>}
        THEN "youtube"
    ELSE IF Contains(host, "instagram.com") THEN "instagram"
    ELSE IF Contains(host, "facebook.com") \/ host = <<"fb.com">> THEN "facebook"
    ELSE "unknown"

-----------------------------------------------------------------------------
(* scraper.py: the standardized result *)

ScrapeResult(p, text, author, images, videos, ts, err) ==
    [platform |-> p, text |-> text, author |-> author, image_urls |-> images,
     video_urls |-> videos, timestamp |-> ts, error |-> err]

error_result(p, message) ==
    ScrapeResult(p, << >>, << >>, << >>, << >>, << >>, message)

NoResult == ScrapeResult("", << >>, << >>, << >>, << >>, << >>, None)

-----------------------------------------------------------------------------
(* scraper.py: Reddit, the public JSON API *)

Exts == {".jpg", ".jpeg", ".png", ".gif", ".webp"}

\* the extension tokens that carry upper-case letters, lower-cased
LowerExt(t) == IF t = ".JPG" THEN ".jpg" ELSE IF t = ".PNG" THEN ".png" ELSE t

\* re.search(r"\.(jpg|jpeg|png|gif|webp)(\?|$)", post_url, re.IGNORECASE)
IsImageUrl(u) ==
    \E i \in 1..Len(u) :
        /\ LowerExt(u[i]) \in Exts
        /\ (i = Len(u) \/ u[i + 1] = "?")

\* AddPreviews without the `src not in image_urls` test of line 133
RECURSIVE AddPreviews_NoMembershipTest(_, _)
AddPreviews_NoMembershipTest(image_urls, imgs) ==
    IF imgs = << >> THEN image_urls
    ELSE LET src == Replace(Head(imgs), "&amp;", <<"&">>) IN
         AddPreviews_NoMembershipTest(
            IF src /= << >> THEN Append(image_urls, src) ELSE image_urls,
            Tail(imgs))

\* the loop over post["preview"]["images"][:2], lines 131-134
RECURSIVE AddPreviews(_, _)
AddPreviews(image_urls, imgs) ==
    IF imgs = << >> THEN image_urls
    ELSE LET src == Replace(Head(imgs), "&amp;", <<"&">>) IN
         AddPreviews(
            IF src /= << >> /\ ~(\E i \in 1..Len(image_urls) : image_urls[i] = src)
                THEN Append(image_urls, src)
                ELSE image_urls,
            Tail(imgs))

RedditImages(p) ==
    AddPreviews(IF IsImageUrl(p.url) THEN <<p.url>> ELSE << >>,
                SubSeq(p.preview, 1, IF Len(p.preview) < 2 THEN Len(p.preview) ELSE 2))

RedditVideos(p) ==
    IF p.is_video /\ p.media = "video" THEN << <<"https://v.redd.it/v/DASH_720.mp4">> >>
    ELSE << >>

\* scrape_reddit on the outcome of the HTTP request:
\*   resp.kind = "fail"    requests.RequestException (connection, timeout, status)
\*   body "notjson"        response.json() raises JSONDecodeError
\*   body "listing"        a JSON object: data[0] raises KeyError
\*   body "nochildren"     children is []: IndexError
\*   body "null"           JSON null: data[0] raises TypeError, which is not caught
\*   body "post"           the post listing; resp.post is children[0]["data"]
\* The result is [raise |-> exception or None, ret |-> ScrapeResult].
scrape_reddit(url, resp) ==
    IF resp.kind = "fail"
        THEN [raise |-> None,
              ret |-> error_result("reddit", <<"Could not fetch Reddit post: ", resp.e>>)]
    ELSE IF resp.body \in {"notjson", "listing", "nochildren"}
        THEN [raise |-> None,
              ret |-> error_result("reddit",
                  <<"Could not parse Reddit response - the URL may not point to a specific post.">>)]
    ELSE IF resp.body = "null"
        THEN [raise |-> <<"TypeError">>, ret |-> NoResult]
    ELSE LET p == resp.post IN
         IF p.is_video /\ p.media = "null"
            THEN [raise |-> <<"AttributeError">>, ret |-> NoResult]
         ELSE [raise |-> None,
               ret |-> ScrapeResult("reddit",
                          Strip(p.title \o <<"\n\n">> \o p.selftext),
                          p.author, RedditImages(p), RedditVideos(p),
                          p.created_utc, None)]

-----------------------------------------------------------------------------
(* scraper.py: YouTube, yt-dlp and the transcript API *)

DESCRIPTION_CAP == 2000
TRANSCRIPT_CAP == 4000

RECURSIVE Join(_)
Join(segs) ==
    IF segs = << >> THEN << >>
    ELSE IF Len(segs) = 1 THEN <<segs[1]>>
    ELSE <<Head(segs), " ">> \o Join(Tail(segs))

NoTranscriptNote == <<"\n\n", "[No captions or transcript available for this video]">>

YoutubeBlock(info) ==
    <<"Title:", " ">> \o info.title \o <<"\n\n", "Description:", "\n">>
        \o Truncate(info.description, DESCRIPTION_CAP)

\* scrape_youtube with a transcript failure handled like a metadata failure
scrape_youtube_TranscriptFatal(url, meta, tr) ==
    IF meta.kind = "noimport"
        THEN [attempted |-> FALSE,
              ret |-> error_result("youtube", <<"yt-dlp not installed. Run: pip install yt-dlp">>)]
    ELSE IF meta.kind = "fail"
        THEN [attempted |-> FALSE,
              ret |-> error_result("youtube",
                          <<"Could not fetch YouTube video info: ", meta.e>>)]
    ELSE IF tr.kind = "fail"
        THEN [attempted |-> TRUE,
              ret |-> error_result("youtube", <<"Could not fetch YouTube transcript">>)]
    ELSE LET info == meta.info
             text == YoutubeBlock(info) \o <<"\n\n", "Video transcript:", "\n">>
                                \o Truncate(Join(tr.segments), TRANSCRIPT_CAP)
         IN [attempted |-> TRUE,
             ret |-> ScrapeResult("youtube", Strip(text), info.uploader,
                        IF info.thumbnail /= << >> THEN <<info.thumbnail>> ELSE << >>,
                        <<url>>, info.upload_date, None)]

\* scrape_youtube on the outcome of the two external steps:
\*   meta.kind = "noimport"  yt_dlp is not installed
\*   meta.kind = "fail"      extract_info raised
\*   meta.kind = "ok"        meta.info is the metadata dict
\*   tr.kind = "fail"        the transcript import or call raised
\*   tr.kind = "ok"          tr.segments are the caption texts
\* `attempted` says whether the transcript step ran at all.
scrape_youtube(url, meta, tr) ==
    IF meta.kind = "noimport"
        THEN [attempted |-> FALSE,
              ret |-> error_result("youtube", <<"yt-dlp not installed. Run: pip install yt-dlp">>)]
    ELSE IF meta.kind = "fail"
        THEN [attempted |-> FALSE,
              ret |-> error_result("youtube",
                          <<"Could not fetch YouTube video info: ", meta.e>>)]
    ELSE LET info == meta.info
             text == YoutubeBlock(info) \o
                     (IF tr.kind = "ok"
                        THEN <<"\n\n", "Video transcript:", "\n">>
                                \o Truncate(Join(tr.segments), TRANSCRIPT_CAP)
                        ELSE NoTranscriptNote)
         IN [attempted |-> TRUE,
             ret |-> ScrapeResult("youtube", Strip(text), info.uploader,
                        IF info.thumbnail /= << >> THEN <<info.thumbnail>> ELSE << >>,
                        <<url>>, info.upload_date, None)]

-----------------------------------------------------------------------------
(* scraper.py: the browser retriever's helpers *)

\* _is_login_page(page.url, platform): any(word in url.lower() for word in indicators)
is_login_page(url, plat) ==
    LET u == Lower(url) IN
    \/ Contains(u, "login")
    \/ Contains(u, "signin")
    \/ Contains(u, "sign-in")
    \/ ContainsSeq(u, <<"accounts", "/", "login">>)
    \/ ContainsSeq(u, <<"/", "auth">>)
    \/ ContainsSeq(u, <<"session", "/", "new">>)

\* the predicate page.wait_for_function polls, lines 257-261
LoginCleared(url) ==
    LET u == Lower(url) IN
    /\ ~Contains(u, "login")
    /\ ~Contains(u, "signin")
    /\ ~Contains(u, "accounts")
    /\ ~ContainsSeq(u, <<"/", "auth">>)

\* what an extraction strategy hands back, read with the defaults of lines 289-297
Extracted(text, author, images, videos, err) ==
    [text |-> text, author |-> author, image_urls |-> images, video_urls |-> videos,
     error |-> err]

\* re.sub(r"&name=\w+$", "&name=large", src)
LargeVariant(src) ==
    IF Len(src) >= 2 /\ src[Len(src) - 1] = "&name=" /\ src[Len(src)] \in {"small", "medium", "large"}
        THEN SubSeq(src, 1, Len(src) - 1) \o <<"large">>
        ELSE src

\* the loop over the tweetPhoto images, lines 341-347
RECURSIVE TwitterImages(_)
TwitterImages(srcs) ==
    IF srcs = << >> THEN << >>
    ELSE (IF Contains(Head(srcs), "pbs.twimg.com") THEN <<LargeVariant(Head(srcs))>> ELSE << >>)
            \o TwitterImages(Tail(srcs))

\* _extract_twitter(page, url) on the page's DOM:
\*   dom.article   the tweet article appears within the selector timeout
\*   dom.text      inner text of tweetText, << >> when the element is missing
\*   dom.name      first line of User-Name, << >> when the element is missing
\*   dom.imgs      the src attributes of the tweetPhoto images
\*   dom.video     a videoComponent element exists
extract_twitter(dom, url) ==
    IF ~dom.article
        THEN Extracted(<< >>, << >>, << >>, << >>,
                <<"Tweet content not found. The post may be deleted, private, or require login.">>)
        ELSE Extracted(dom.text, dom.name, TwitterImages(dom.imgs),
                IF dom.video THEN <<url>> ELSE << >>, None)

\* og:image handling shared by lines 368 and 387: dom.image is "absent" (no tag)
\* or the tag's content (<< >> when the attribute is missing)
OgImages(dom) == IF dom.hasImage THEN <<dom.image>> ELSE << >>

OgVideos(dom, url) == IF dom.isVideo THEN <<url>> ELSE << >>

\* _extract_instagram(page, url) on the page's Open Graph tags
extract_instagram(dom, url) ==
    Extracted(dom.desc, << >>, OgImages(dom), OgVideos(dom, url), None)

\* _extract_facebook(page, url) on the page's Open Graph tags
extract_facebook(dom, url) ==
    Extracted(Strip(dom.title \o <<"\n\n">> \o dom.desc), << >>,
              OgImages(dom), OgVideos(dom, url), None)

\* Extract with the failure message added to whatever had been read so far
Extract_KeepsPartial(plat, dom, url) ==
    IF dom.crash /= None
        THEN Extracted(dom.text \o dom.desc, << >>, << >>, << >>,
                       <<"Content extraction failed: ">> \o dom.crash)
    ELSE IF plat = "twitter" THEN extract_twitter(dom, url)
    ELSE IF plat = "instagram" THEN extract_instagram(dom, url)
    ELSE IF plat = "facebook" THEN extract_facebook(dom, url)
    ELSE Extracted(<< >>, << >>, << >>, << >>, None)

\* lines 274-284: the dispatch on platform and the catch-all around it;
\* dom.crash is the exception a page operation raised during extraction, or None
Extract(plat, dom, url) ==
    IF dom.crash /= None
        THEN Extracted(<< >>, << >>, << >>, << >>, <<"Content extraction failed: ">> \o dom.crash)
    ELSE IF plat = "twitter" THEN extract_twitter(dom, url)
    ELSE IF plat = "instagram" THEN extract_instagram(dom, url)
    ELSE IF plat = "facebook" THEN extract_facebook(dom, url)
    ELSE Extracted(<< >>, << >>, << >>, << >>, None)

\* lines 289-297
PlaywrightReturn(plat, r) ==
    ScrapeResult(plat, r.text, r.author, r.image_urls, r.video_urls, << >>, r.error)

-----------------------------------------------------------------------------
(* claims.py: parsing the model's reply *)

\* the triple backtick that opens and closes a markdown code fence
Fence == "<triple backtick>"

JsonTokens == {"{claims,summary}", "{}", "[]", "42"}

AnalysisResult(kind, keys, claims, summary, err) ==
    [kind |-> kind, keys |-> keys, claims |-> claims, summary |-> summary,
     error |-> err, scraped |-> FALSE]

\* json.loads of one JSON text
JsonValue(tok) ==
    CASE tok = "{claims,summary}" ->
            AnalysisResult("dict", {"claims", "summary"}, <<"claim 1">>, <<"ok">>, None)
      [] tok = "{}" -> AnalysisResult("dict", {}, << >>, << >>, None)
      [] tok = "[]" -> AnalysisResult("list", {}, << >>, << >>, None)
      [] OTHER -> AnalysisResult("int", {}, << >>, << >>, None)

\* json.loads accepts one JSON text with whitespace around it
IsJson(s) == Len(Strip(s)) = 1 /\ Strip(s)[1] \in JsonTokens

Newlines == {"\n", "\n\n"}

HasNewline(s) == \E i \in 1..Len(s) : s[i] \in Newlines

\* s.split("\n", 1)[1], defined when s has a newline
RECURSIVE AfterFirstNewline(_)
AfterFirstNewline(s) ==
    IF Head(s) = "\n" THEN Tail(s)
    ELSE IF Head(s) = "\n\n" THEN <<"\n">> \o Tail(s)
    ELSE AfterFirstNewline(Tail(s))

\* s.rsplit(Fence, 1)[0]
RECURSIVE BeforeLastFence(_)
BeforeLastFence(s) ==
    IF ~Contains(s, Fence) THEN s
    ELSE IF s[Len(s)] = Fence THEN SubSeq(s, 1, Len(s) - 1)
    ELSE BeforeLastFence(SubSeq(s, 1, Len(s) - 1))

ParseErrorMessage ==
    <<"Claude returned a response that could not be parsed as structured data. The raw response is shown in summary.">>

\* lines 108-130 on the reply text: [raise |-> exception or None, ret |-> result]
ParseReply(replyText) ==
    LET raw0 == Strip(replyText) IN
    IF raw0 /= << >> /\ Head(raw0) = Fence /\ ~HasNewline(raw0)
        THEN [raise |-> <<"IndexError">>, ret |-> AnalysisResult("none", {}, << >>, << >>, None)]
    ELSE LET raw == IF raw0 /= << >> /\ Head(raw0) = Fence
                        THEN Strip(BeforeLastFence(AfterFirstNewline(raw0)))
                        ELSE raw0
         IN IF IsJson(raw)
                THEN [raise |-> None, ret |-> JsonValue(Strip(raw)[1])]
                ELSE [raise |-> None,
                      ret |-> AnalysisResult("dict", {"claims", "summary", "error"},
                                             << >>, raw, ParseErrorMessage)]

-----------------------------------------------------------------------------
(* The inputs and the outcomes of the external steps *)

MaxPreviews == 3    \* longest preview.images list of a post
MaxImgs == 2        \* most tweetPhoto images of a tweet
MaxPolls == 2       \* polls of the login predicate before the 90 s run out

RECURSIVE SeqsUpTo(_, _)
SeqsUpTo(S, n) ==
    IF n = 0 THEN {<< >>}
    ELSE LET shorter == SeqsUpTo(S, n - 1) IN
         shorter \cup {Append(q, x) : q \in shorter, x \in S}

U_REDDIT    == <<"https:", "/", "/", "www.", "reddit.com", "/", "r", "/", "a", "/">>
U_YOUTUBE   == <<"https:", "/", "/", "youtu.be", "/", "v1">>
U_TWITTER   == <<"https:", "/", "/", "x.com", "/", "u", "/", "status", "/", "1">>
U_INSTAGRAM == <<"https:", "/", "/", "www.", "instagram.com", "/", "p", "/", "1">>
U_FACEBOOK  == <<"https:", "/", "/", "WWW.", "Facebook.com", "/", "p", "/", "1">>
U_UNKNOWN   == <<"https:", "/", "/", "example.org", "/", "post", "/", "1">>
U_NOSCHEME  == <<"reddit.com", "/", "r", "/", "a">>

Urls == {U_REDDIT, U_YOUTUBE, U_TWITTER, U_INSTAGRAM, U_FACEBOOK, U_UNKNOWN, U_NOSCHEME}

ClaimText == <<"The moon landing was filmed in 1969.">>

Texts == {<< >>, <<" ">>, <<" ", "\n">>, ClaimText}

PostInputs ==
    {[url |-> u, text |-> t] : u \in Urls, t \in {<< >>, ClaimText}}
        \cup {[url |-> << >>, text |-> t] : t \in Texts}

\* Reddit: image and link URLs of a post
IMG_A     == <<"https://i.redd.it/a", ".jpg">>
IMG_B     == <<"https://preview.redd.it/b", ".PNG", "?", "width=640", "&", "s=1">>
IMG_B_ESC == <<"https://preview.redd.it/b", ".PNG", "?", "width=640", "&amp;", "s=1">>
LINK      == <<"https://example.org/gallery", ".jpg", "/", "view">>

RedditPosts ==
    {[title |-> ti, selftext |-> st, url |-> u, is_video |-> v, media |-> m,
      preview |-> pv, author |-> <<"u1">>, created_utc |-> <<"1700000000.0">>] :
        ti \in {<<"Title">>, <<" ", "Title">>}, st \in {<< >>, <<"Body", "\n">>},
        u \in {<< >>, LINK, IMG_A, IMG_B}, v \in BOOLEAN,
        m \in {"absent", "null", "video"},
        pv \in SeqsUpTo({IMG_A, IMG_B_ESC, << >>}, MaxPreviews)}

NoPost ==
    [title |-> << >>, selftext |-> << >>, url |-> << >>, is_video |-> FALSE,
     media |-> "absent", preview |-> << >>, author |-> << >>, created_utc |-> << >>]

NoHttp == [kind |-> "none", e |-> "", body |-> "none", post |-> NoPost]

HttpOutcomes ==
    {[NoHttp EXCEPT !.kind = "fail", !.e = "404 Client Error"]}
        \cup {[NoHttp EXCEPT !.kind = "ok", !.body = b] :
                b \in {"notjson", "listing", "nochildren", "null"}}
        \cup {[NoHttp EXCEPT !.kind = "ok", !.body = "post", !.post = p] : p \in RedditPosts}

\* YouTube
YtInfos ==
    {[title |-> ti, description |-> d, uploader |-> <<"Channel">>, id |-> <<"v1">>,
      thumbnail |-> th, upload_date |-> <<"20240101">>] :
        ti \in {<< >>, <<"Video">>}, d \in {<< >>, <<"About", " ">>},
        th \in {<< >>, <<"https://i.ytimg.com/vi/v1/hq.jpg">>}}

MetaOutcomes ==
    {[kind |-> "noimport", e |-> "", info |-> CHOOSE i \in YtInfos : TRUE],
     [kind |-> "fail", e |-> "Video unavailable", info |-> CHOOSE i \in YtInfos : TRUE]}
        \cup {[kind |-> "ok", e |-> "", info |-> i] : i \in YtInfos}

TranscriptOutcomes ==
    {[kind |-> "fail", segments |-> << >>]}
        \cup {[kind |-> "ok", segments |-> sg] : sg \in {<< >>, <<"hello">>, <<"hello", "world">>}}

\* the browser: the locations a platform may show, and what the page holds
PageUrls ==
    {<<"https:", "/", "/", "x.com", "/", "u", "/", "status", "/", "1">>,
     <<"https:", "/", "/", "x.com", "/", "accounts", "/", "Login">>,
     <<"https:", "/", "/", "x.com", "/", "sign-in">>,
     <<"https:", "/", "/", "x.com", "/", "accounts", "/", "edit">>,
     <<"https:", "/", "/", "x.com", "/", "auth">>,
     <<"https:", "/", "/", "x.com", "/", "session", "/", "new">>}

TW_A_SMALL  == <<"https://", "pbs.twimg.com", "/media/A", "?format=jpg", "&name=", "small">>
TW_A_MEDIUM == <<"https://", "pbs.twimg.com", "/media/A", "?format=jpg", "&name=", "medium">>
TW_EMOJI    == <<"https://", "abs.twimg.com", "/emoji/1.svg">>

NoDom ==
    [crash |-> None, article |-> FALSE, text |-> << >>, name |-> << >>, imgs |-> << >>,
     video |-> FALSE, title |-> << >>, desc |-> << >>, hasImage |-> FALSE,
     image |-> << >>, isVideo |-> FALSE]

Doms(plat) ==
    {[NoDom EXCEPT !.crash = <<"Target page, context or browser has been closed">>,
                   !.article = TRUE, !.text = <<"tweet">>, !.desc = <<"caption">>]}
    \cup
    (IF plat = "twitter"
        THEN {NoDom} \cup
             {[NoDom EXCEPT !.article = TRUE, !.text = t, !.name = <<"Name">>,
                            !.imgs = im, !.video = v] :
                t \in {<< >>, <<"tweet">>}, v \in BOOLEAN,
                im \in SeqsUpTo({TW_A_SMALL, TW_A_MEDIUM, TW_EMOJI}, MaxImgs)}
        ELSE {[NoDom EXCEPT !.title = ti, !.desc = d, !.hasImage = hi, !.image = im,
                            !.isVideo = v] :
                ti \in {<< >>, <<"Page">>}, d \in {<< >>, <<"caption">>},
                hi \in BOOLEAN, im \in {<< >>, <<"https://cdn/og.jpg">>}, v \in BOOLEAN})

Replies ==
    {<<"{claims,summary}">>,
     <<Fence, "json", "\n", "{claims,summary}", "\n", Fence>>,
     <<Fence, "json", "\n", "{claims,summary}">>,
     <<Fence, "json", "\n", "not json at all", "\n", Fence>>,
     <<"not json at all">>,
     <<Fence>>,
     <<Fence, "{claims,summary}", Fence>>,
     <<"[]">>,
     <<"42">>,
     <<"{}">>,
     << >>}

-----------------------------------------------------------------------------
(* The request: analyze_post -> scrape -> a retriever -> extract_and_classify *)

NoExtracted == Extracted(<< >>, << >>, << >>, << >>, None)
NoResponse == AnalysisResult("none", {}, << >>, << >>, None)

\* a response analyze_post builds itself when it refuses a request
Refusal(keys, message, withScraped) ==
    [AnalysisResult("dict", keys, << >>, << >>, message) EXCEPT !.scraped = withScraped]

UnsupportedMessage ==
    <<"Unrecognized URL. Supported: X/Twitter, Reddit, YouTube, Instagram, Facebook.">>
NeitherMessage == <<"Please provide either a URL or some post text.">>
NoTextMessage == <<"No text content could be extracted from this post.">>
LoginTimeoutMessage == <<"Login timed out (90 seconds). Please try again.">>

\* the text of the exception page.goto raises when the load fails
NavigationError == "net::ERR_NAME_NOT_RESOLVED"

\* platform.title()
Title(plat) ==
    CASE plat = "twitter" -> "Twitter"
      [] plat = "instagram" -> "Instagram"
      [] plat = "facebook" -> "Facebook"
      [] OTHER -> plat

ServerMessage(plat) ==
    <<"Scraping ", Title(plat),
      " requires a logged-in browser session, which only works in the desktop version of this tool. ",
      "Please copy and paste the post text manually.">>

Init ==
    /\ IS_SERVER \in BOOLEAN
    /\ pc = "start"
    /\ post = [url |-> << >>, text |-> << >>]
    /\ platform = ""
    /\ scraped = NoResult
    /\ hasScraped = FALSE
    /\ text_to_analyze = << >>
    /\ playwright = "none"
    /\ browser = "none"
    /\ pageUrl = << >>
    /\ polls = 0
    /\ entered = {}
    /\ calls = {}
    /\ sessionTouched = {}
    /\ result = NoExtracted
    /\ http = NoHttp
    /\ reply = None
    /\ fault = "none"
    /\ response = NoResponse
    /\ raised = None

\* scrape returns r to analyze_post
ScrapeReturns(r) ==
    /\ scraped' = r
    /\ hasScraped' = TRUE
    /\ pc' = "scraped"
    /\ raised' = raised

\* exception e leaves analyze_post unhandled
Escapes(e) ==
    /\ raised' = e
    /\ pc' = "raised"
    /\ UNCHANGED <<scraped, hasScraped>>

BrowserPlatforms == {"twitter", "instagram", "facebook"}

\* Retriever without the early return for "unknown": the table lookup falls
\* through to the shared browser retriever
Retriever_Fallthrough(plat) ==
    IF plat \in {"reddit", "youtube"} THEN plat ELSE "playwright"

\* the retriever scrape() picks, lines 69-83; "none" is the early return of line 70
Retriever(plat) ==
    IF plat = "unknown" THEN "none"
    ELSE IF plat \in BrowserPlatforms THEN "playwright"
    ELSE plat

\* main.py 42-46 and 69-77, with scrape's dispatch (scraper.py 67-83)
AnalyzePost ==
    /\ pc = "start"
    /\ \E p \in PostInputs :
        /\ post' = p
        /\ IF Truthy(p.url) /\ UrlparseRaises(p.url)
             THEN /\ Escapes(<<"ValueError">>)
                  /\ UNCHANGED <<platform, text_to_analyze, response>>
           ELSE IF Truthy(p.url)
             THEN /\ platform' = detect_platform(p.url)
                  /\ IF Retriever(platform') = "none"
                        THEN ScrapeReturns(error_result("unknown", UnsupportedMessage))
                        ELSE /\ pc' = Retriever(platform')
                             /\ UNCHANGED <<scraped, hasScraped, raised>>
                  /\ UNCHANGED <<text_to_analyze, response>>
           ELSE IF Truthy(p.text)
             THEN /\ text_to_analyze' = p.text
                  /\ IF Strip(p.text) = << >>
                        THEN /\ response' = Refusal({"error", "claims", "summary"}, NoTextMessage, FALSE)
                             /\ pc' = "done"
                        ELSE /\ pc' = "classify"
                             /\ UNCHANGED response
                  /\ UNCHANGED <<platform, scraped, hasScraped, raised>>
           ELSE /\ response' = Refusal({"error", "claims", "summary"}, NeitherMessage, FALSE)
                /\ pc' = "done"
                /\ UNCHANGED <<platform, scraped, hasScraped, raised, text_to_analyze>>
    /\ UNCHANGED <<IS_SERVER, playwright, browser, pageUrl, polls, entered, calls,
                   sessionTouched, result, http, reply, fault>>

\* scraper.py 96-102: the GET request and what comes back
RedditFetch ==
    /\ pc = "reddit"
    /\ calls' = calls \cup {"http_get"}
    /\ \E h \in HttpOutcomes : http' = h
    /\ pc' = "reddit_response"
    /\ UNCHANGED <<IS_SERVER, post, platform, scraped, hasScraped, text_to_analyze,
                   playwright, browser, pageUrl, polls, entered, sessionTouched, result,
                   reply, fault, response, raised>>

\* scraper.py 103-144: the rest of scrape_reddit, on the response
RedditBuild ==
    /\ pc = "reddit_response"
    /\ LET r == scrape_reddit(post.url, http) IN
        IF r.raise /= None THEN Escapes(r.raise) ELSE ScrapeReturns(r.ret)
    /\ fault' = IF http.kind = "fail" THEN "http_get"
                ELSE IF http.body /= "post" THEN "json_shape"
                ELSE fault
    /\ http' = NoHttp
    /\ UNCHANGED <<IS_SERVER, post, platform, text_to_analyze, playwright, browser,
                   pageUrl, polls, entered, calls, sessionTouched, result, reply, response>>

\* scraper.py 151-195
ScrapeYoutube ==
    /\ pc = "youtube"
    /\ \E meta \in MetaOutcomes, tr \in TranscriptOutcomes :
        LET r == scrape_youtube(post.url, meta, tr) IN
        /\ calls' = calls \cup (IF meta.kind = "noimport" THEN {} ELSE {"ytdlp"})
                          \cup (IF r.attempted THEN {"transcript"} ELSE {})
        /\ fault' = IF meta.kind \in {"noimport", "fail"} THEN "metadata"
                    ELSE IF tr.kind = "fail" THEN "transcript"
                    ELSE "none"
        /\ ScrapeReturns(r.ret)
    /\ UNCHANGED <<IS_SERVER, post, platform, text_to_analyze, playwright, browser,
                   pageUrl, polls, entered, sessionTouched, result, http, reply, response>>

-----------------------------------------------------------------------------
(* scrape_playwright, scraper.py 202-297, one action per blocking step *)

\* CloseAndFail without the browser.close()
CloseAndFail_NoClose(message, step) ==
    /\ browser' = browser
    /\ playwright' = "stopped"
    /\ entered' = entered
    /\ fault' = step
    /\ ScrapeReturns(error_result(platform, message))

\* browser.close() followed by `return _error_result(...)`, which leaves the
\* `with sync_playwright()` block
CloseAndFail(message, step) ==
    /\ browser' = "closed"
    /\ playwright' = "stopped"
    /\ entered' = entered \cup {"Teardown"}
    /\ fault' = step
    /\ ScrapeReturns(error_result(platform, message))

\* an exception nothing catches leaves the `with` block: the driver is stopped,
\* browser.close() is not called
PwEscapes(e, step, nowEntered) ==
    /\ playwright' = "stopped"
    /\ entered' = entered \cup nowEntered
    /\ fault' = step
    /\ Escapes(e)
    /\ UNCHANGED browser

\* LaunchOutcomes without the IS_SERVER test
LaunchOutcomes_NoServerCheck(isServer) == {"noimport", "launchfail", "ok"}

\* lines 214-237: what the entry of scrape_playwright can come to. In server mode
\* the function returns at line 215, before the import and the launch.
LaunchOutcomes(isServer) ==
    IF isServer THEN {"server"} ELSE {"noimport", "launchfail", "ok"}

\* lines 214-237: the server check, the import, the driver and the launch
PwLaunch ==
    /\ pc = "playwright"
    /\ \E o \in LaunchOutcomes(IS_SERVER) :
         IF o = "server"
         THEN /\ ScrapeReturns(error_result(platform, ServerMessage(platform)))
              /\ UNCHANGED <<playwright, browser, entered, calls, sessionTouched, fault>>
         ELSE
              IF o = "noimport"
                THEN /\ ScrapeReturns(error_result(platform,
                            <<"Playwright not installed. Run: pip install playwright && playwright install chromium">>))
                     /\ UNCHANGED <<playwright, browser, entered, calls, sessionTouched, fault>>
                ELSE /\ calls' = calls \cup {"launch"}
                     /\ sessionTouched' = sessionTouched \cup {platform}
                     /\ IF o = "launchfail"
                          THEN PwEscapes(<<"playwright Error: launch">>, "launch", {"Launch"})
                          ELSE /\ playwright' = "started"
                               /\ browser' = "open"
                               /\ entered' = entered \cup {"Launch"}
                               /\ pc' = "pw_page"
                               /\ UNCHANGED <<scraped, hasScraped, raised, fault>>
    /\ UNCHANGED <<IS_SERVER, post, platform, text_to_analyze, pageUrl, polls, result,
                   http, reply, response>>

\* line 239
PwPage ==
    /\ pc = "pw_page"
    /\ \E ok \in BOOLEAN :
        IF ok THEN /\ pc' = "pw_goto"
                   /\ UNCHANGED <<playwright, browser, entered, fault, scraped, hasScraped, raised>>
              ELSE PwEscapes(<<"playwright Error: new_page">>, "page", {})
    /\ UNCHANGED <<IS_SERVER, post, platform, text_to_analyze, pageUrl, polls, calls,
                   sessionTouched, result, http, reply, response>>

\* lines 241-245
PwGoto ==
    /\ pc = "pw_goto"
    /\ \E ok \in BOOLEAN :
        IF ok THEN /\ \E u \in PageUrls : pageUrl' = u
                   /\ entered' = entered \cup {"Navigate"}
                   /\ pc' = "pw_settle"
                   /\ UNCHANGED <<playwright, browser, fault, scraped, hasScraped, raised>>
              ELSE /\ browser' = "closed"
                   /\ playwright' = "stopped"
                   /\ entered' = entered \cup {"Navigate", "Teardown"}
                   /\ fault' = "goto"
                   /\ ScrapeReturns(error_result(platform,
                            <<"Page failed to load: ", NavigationError>>))
                   /\ UNCHANGED pageUrl
    /\ UNCHANGED <<IS_SERVER, post, platform, text_to_analyze, polls, calls,
                   sessionTouched, result, http, reply, response>>

\* lines 248-251: the settle wait, then the login-wall check on page.url
PwSettle ==
    /\ pc = "pw_settle"
    /\ \E ok \in BOOLEAN :
        IF ok THEN /\ \E u \in PageUrls : pageUrl' = u
                   /\ IF is_login_page(pageUrl', platform)
                        THEN /\ pc' = "pw_wait"
                             /\ entered' = entered \cup {"SettleAndCheck", "WaitForLogin"}
                        ELSE /\ pc' = "pw_extract"
                             /\ entered' = entered \cup {"SettleAndCheck"}
                   /\ UNCHANGED <<playwright, browser, fault, scraped, hasScraped, raised>>
              ELSE /\ PwEscapes(<<"playwright Error: wait_for_timeout">>, "settle",
                                {"SettleAndCheck"})
                   /\ UNCHANGED pageUrl
    /\ UNCHANGED <<IS_SERVER, post, platform, text_to_analyze, polls, calls,
                   sessionTouched, result, http, reply, response>>

\* lines 256-263: one poll of the predicate; the user may have moved the page
PwWaitPoll ==
    /\ pc = "pw_wait"
    /\ polls < MaxPolls
    /\ \E u \in PageUrls : pageUrl' = u
    /\ polls' = polls + 1
    /\ pc' = IF LoginCleared(pageUrl') THEN "pw_regoto" ELSE "pw_wait"
    /\ UNCHANGED <<IS_SERVER, post, platform, scraped, hasScraped, text_to_analyze,
                   playwright, browser, entered, calls, sessionTouched, result, http,
                   reply, fault, response, raised>>

\* lines 262, 268-270: the 90 s run out with the predicate still false
PwLoginTimeout ==
    /\ pc = "pw_wait"
    /\ polls = MaxPolls
    /\ CloseAndFail(LoginTimeoutMessage, "login_wait")
    /\ UNCHANGED <<IS_SERVER, post, platform, text_to_analyze, pageUrl, polls, calls,
                   sessionTouched, result, http, reply, response>>

\* lines 264-270: settle, load the original URL again, settle
PwRenavigate ==
    /\ pc = "pw_regoto"
    /\ \E o \in {"ok", "settle_failed", "goto_failed"} :
        IF o = "ok"
            THEN /\ \E u \in PageUrls : pageUrl' = u
                 /\ pc' = "pw_extract"
                 /\ UNCHANGED <<playwright, browser, entered, fault, scraped, hasScraped, raised>>
            ELSE /\ CloseAndFail(LoginTimeoutMessage,
                                 IF o = "goto_failed" THEN "regoto" ELSE "resettle")
                 /\ UNCHANGED pageUrl
    /\ UNCHANGED <<IS_SERVER, post, platform, text_to_analyze, polls, calls,
                   sessionTouched, result, http, reply, response>>

\* lines 273-297: extraction, browser.close(), the normalised result
PwExtract ==
    /\ pc = "pw_extract"
    /\ \E dom \in Doms(platform) : result' = Extract(platform, dom, post.url)
    /\ browser' = "closed"
    /\ playwright' = "stopped"
    /\ entered' = entered \cup {"Extract", "Teardown"}
    /\ ScrapeReturns(PlaywrightReturn(platform, result'))
    /\ UNCHANGED <<IS_SERVER, post, platform, text_to_analyze, pageUrl, polls, calls,
                   sessionTouched, http, reply, fault, response>>

-----------------------------------------------------------------------------
(* main.py 48-86 and claims.py *)

ImageNote(n) == <<"\n\n", "[Note: this post contains ", ToString(n), " image(s)]">>
VideoNote(n) == <<"\n\n", "[Note: this post contains ", ToString(n), " video(s)]">>

\* main.py 59-67
TextToAnalyze(sc) ==
    sc.text
        \o (IF Truthy(sc.image_urls) THEN ImageNote(Len(sc.image_urls)) ELSE << >>)
        \o (IF Truthy(sc.video_urls) THEN VideoNote(Len(sc.video_urls)) ELSE << >>)

\* main.py 76: the request goes on to the classifier
HasText(t) == Strip(t) /= << >>

\* main.py 48-77, after scrape has returned
AnalyzeScraped ==
    /\ pc = "scraped"
    /\ IF Truthy(scraped.error)
         THEN /\ response' = [Refusal({"error", "scraped", "claims", "summary"},
                                      scraped.error, TRUE) EXCEPT !.scraped = TRUE]
              /\ pc' = "done"
              /\ UNCHANGED text_to_analyze
         ELSE /\ text_to_analyze' = TextToAnalyze(scraped)
              /\ IF HasText(text_to_analyze')
                    THEN /\ pc' = "classify"
                         /\ UNCHANGED response
                    ELSE /\ response' = Refusal({"error", "claims", "summary"}, NoTextMessage, FALSE)
                         /\ pc' = "done"
    /\ UNCHANGED <<IS_SERVER, post, platform, scraped, hasScraped, playwright, browser,
                   pageUrl, polls, entered, calls, sessionTouched, result, http, reply,
                   fault, raised>>

\* main.py 80-86 with claims.py 74-130: the call to the model, the parse of its
\* reply, and the attachment of the scrape metadata
ExtractAndClassify ==
    /\ pc = "classify"
    /\ calls' = calls \cup {"llm"}
    /\ \E r \in Replies \cup {None} :
        IF r = None
            THEN /\ Escapes(<<"anthropic.APIError">>)
                 /\ UNCHANGED <<reply, response>>
            ELSE /\ reply' = r
                 /\ LET parsed == ParseReply(r) IN
                    IF parsed.raise /= None
                        THEN Escapes(parsed.raise) /\ UNCHANGED response
                    ELSE IF hasScraped /\ parsed.ret.kind /= "dict"
                        THEN Escapes(<<"TypeError">>) /\ UNCHANGED response
                    ELSE /\ response' =
                                IF hasScraped
                                    THEN [parsed.ret EXCEPT !.scraped = TRUE,
                                                            !.keys = @ \cup {"scraped"}]
                                    ELSE parsed.ret
                         /\ pc' = "done"
                         /\ UNCHANGED <<raised, scraped, hasScraped>>
    /\ UNCHANGED <<IS_SERVER, post, platform, text_to_analyze, playwright, browser,
                   pageUrl, polls, entered, sessionTouched, result, http, fault>>

Next ==
    \/ AnalyzePost
    \/ RedditFetch
    \/ RedditBuild
    \/ ScrapeYoutube
    \/ PwLaunch
    \/ PwPage
    \/ PwGoto
    \/ PwSettle
    \/ PwWaitPoll
    \/ PwLoginTimeout
    \/ PwRenavigate
    \/ PwExtract
    \/ AnalyzeScraped
    \/ ExtractAndClassify

Spec == Init /\ [][Next]_vars

-----------------------------------------------------------------------------
(* detect_platform on its own: the URL is drawn at the start, one step applies
   the function *)

MaxHostLen == 2     \* most tokens of a network location

HostTokens ==
    {"www.", "WWW.", "old.", "not", "reddit.com", "Reddit.com", "x.com", "youtu.be",
     "fb.com", ".evil.org", ":443", "["}

DetectUrls ==
    {scheme \o host \o path :
        scheme \in {<<"https:", "/", "/">>, << >>},
        host \in SeqsUpTo(HostTokens, MaxHostLen),
        path \in {<< >>, <<"/", "r", "/", "a">>}}

DetectInit ==
    /\ IS_SERVER = FALSE
    /\ pc = "detect"
    /\ post \in {[url |-> u, text |-> << >>] : u \in DetectUrls}
    /\ platform = ""
    /\ scraped = NoResult
    /\ hasScraped = FALSE
    /\ text_to_analyze = << >>
    /\ playwright = "none"
    /\ browser = "none"
    /\ pageUrl = << >>
    /\ polls = 0
    /\ entered = {}
    /\ calls = {}
    /\ sessionTouched = {}
    /\ result = NoExtracted
    /\ http = NoHttp
    /\ reply = None
    /\ fault = "none"
    /\ response = NoResponse
    /\ raised = None

\* scraper.py 37-55, called on post.url
DetectPlatform ==
    /\ pc = "detect"
    /\ pc' = "detected"
    /\ IF UrlparseRaises(post.url)
         THEN raised' = <<"ValueError">> /\ UNCHANGED platform
         ELSE platform' = detect_platform(post.url) /\ UNCHANGED raised
    /\ UNCHANGED <<IS_SERVER, post, scraped, hasScraped, text_to_analyze, playwright,
                   browser, pageUrl, polls, entered, calls, sessionTouched, result, http,
                   reply, fault, response>>

DetectNext == DetectPlatform

DetectSpec == DetectInit /\ [][DetectNext]_vars

-----------------------------------------------------------------------------
(* The claims *)

PwPcs == {"pw_page", "pw_goto", "pw_settle", "pw_wait", "pw_regoto", "pw_extract"}

\* C1: every result scrape returns, from whichever retriever, that carries an
\* error carries no content: text is empty and image_urls and video_urls are
\* empty lists.
C1_ErrorExcludesContent ==
    hasScraped =>
        (scraped.error /= None =>
            /\ scraped.text = << >>
            /\ scraped.image_urls = << >>
            /\ scraped.video_urls = << >>)

\* C1 witness: the browser retriever returned an error after extraction ran on a
\* loaded page.
C1_Witness ==
    /\ hasScraped
    /\ scraped.error /= None
    /\ scraped.platform \in BrowserPlatforms
    /\ "Extract" \in entered

\* C2: scrape(url) never raises to its caller: whatever external step fails, no
\* exception leaves scrape before it has returned a ScrapeResult.
C2_ScrapeNeverRaises ==
    ~(raised /= None /\ Truthy(post.url) /\ ~hasScraped)

\* C3: once the persistent context has been launched, it has been closed with
\* browser.close() whenever control is outside scrape_playwright.
C3_ContextClosedOnEveryExit ==
    browser = "open" => pc \in PwPcs

\* C4: the classifier is called only on non-blank post text. A request with
\* neither url nor text, with whitespace-only text, or whose scrape succeeded
\* with empty or whitespace-only text (whatever media it found) is refused with
\* an error, claims = [] and summary = "", and the classifier is never invoked.
C4_ClassifierOnlyOnText ==
    LET blank == \/ ~Truthy(post.url) /\ ~HasText(post.text)
                 \/ hasScraped /\ ~Truthy(scraped.error) /\ ~HasText(scraped.text)
    IN (pc \in {"classify", "done", "raised"} /\ blank) =>
            /\ pc = "done"
            /\ "llm" \notin calls
            /\ response.error /= None
            /\ response.claims = << >>
            /\ response.summary = << >>

\* C5: whatever the model replies, the caller gets a well-formed result (an
\* object with claims and summary) and no exception; a reply that is not a JSON
\* object after fence-stripping gives claims = [], summary = the raw reply and
\* a non-null error.
C5_AlwaysWellFormed ==
    reply /= None =>
        /\ raised = None
        /\ pc = "done"
        /\ response.kind = "dict"
        /\ {"claims", "summary"} \subseteq response.keys
        /\ (response.error /= None =>
                response.claims = << >> /\ response.summary = Strip(reply))

\* C6: for a URL whose host detect_platform does not recognise, scrape returns
\* platform "unknown", a non-null error and empty content, and no retriever
\* ran: no HTTP request, no metadata or transcript call, no browser launch.
C6_UnknownHostRefused ==
    (pc /= "start" /\ Truthy(post.url) /\ detect_platform(post.url) = "unknown") =>
        /\ hasScraped
        /\ scraped.platform = "unknown"
        /\ scraped.error /= None
        /\ scraped.text = << >>
        /\ scraped.image_urls = << >>
        /\ scraped.video_urls = << >>
        /\ calls \cap {"http_get", "ytdlp", "transcript", "launch"} = {}
        /\ browser = "none"
        /\ playwright = "none"
        /\ entered = {}

\* C6 witness: the request for an unrecognised host has been answered.
C6_Witness ==
    /\ pc = "done"
    /\ post.url = U_UNKNOWN
    /\ response.error = UnsupportedMessage

\* C7: in server mode scrape_playwright answers every twitter, instagram or
\* facebook URL with the manual-paste error, never enters Launch, creates no
\* browser context and does not touch the platform's session directory.
C7_ServerNeverLaunches ==
    (IS_SERVER /\ platform \in BrowserPlatforms /\ pc \notin {"start", "playwright"}) =>
        /\ hasScraped
        /\ scraped = error_result(platform, ServerMessage(platform))
        /\ Contains(scraped.error, "Please copy and paste the post text manually.")
        /\ "Launch" \notin entered
        /\ "launch" \notin calls
        /\ browser = "none"
        /\ playwright = "none"
        /\ sessionTouched = {}

\* C7 witness: a server-mode request for an Instagram URL has been answered.
C7_Witness ==
    /\ IS_SERVER
    /\ platform = "instagram"
    /\ pc = "done"
    /\ hasScraped

\* C8: when a login wall was detected and the login predicate stayed false for
\* the whole bounded wait, the run is Failed with the login-timeout message,
\* Extract was never entered, and the context is closed when the result is
\* returned.
C8_LoginTimeoutFails ==
    fault = "login_wait" =>
        /\ "WaitForLogin" \in entered
        /\ polls = MaxPolls
        /\ ~LoginCleared(pageUrl)
        /\ hasScraped
        /\ scraped.error = LoginTimeoutMessage
        /\ scraped.text = << >>
        /\ "Extract" \notin entered
        /\ browser = "closed"

\* C8 witness: the login wait ran out and the result was returned.
C8_Witness ==
    /\ fault = "login_wait"
    /\ pc = "scraped"
    /\ is_login_page(pageUrl, platform)

\* C9: in scrape_youtube a metadata failure gives an error result and the
\* transcript step is never attempted; a transcript failure after metadata
\* success gives error = null, text = the title/description block followed by
\* the no-transcript note, and video_urls = [the original URL].
C9_YoutubeAsymmetric ==
    (hasScraped /\ scraped.platform = "youtube") =>
        /\ fault = "metadata" =>
                /\ scraped.error /= None
                /\ "transcript" \notin calls
        /\ fault = "transcript" =>
                /\ scraped.error = None
                /\ {"ytdlp", "transcript"} \subseteq calls
                /\ \E info \in YtInfos :
                        scraped.text = YoutubeBlock(info) \o NoTranscriptNote
                /\ scraped.video_urls = <<post.url>>

\* C9 witness: metadata came back and the transcript step failed.
C9_Witness ==
    /\ hasScraped
    /\ scraped.platform = "youtube"
    /\ fault = "transcript"

NoDup(q) == \A i, j \in 1..Len(q) : i /= j => q[i] /= q[j]

\* the first occurrence of every element of q, in order
RECURSIVE FirstOccurrences(_)
FirstOccurrences(q) ==
    IF q = << >> THEN << >>
    ELSE LET front == SubSeq(q, 1, Len(q) - 1)
             last == q[Len(q)]
         IN IF \E i \in 1..Len(front) : front[i] = last
                THEN FirstOccurrences(front)
                ELSE Append(FirstOccurrences(front), last)

\* the image URLs of a Reddit post in the order the retriever meets them: the
\* direct media URL, then the first two preview sources, entities unescaped
Discovered(p) ==
    LET unescaped == [i \in 1..Len(p.preview) |-> Replace(p.preview[i], "&amp;", <<"&">>)]
        two == SubSeq(unescaped, 1, IF Len(unescaped) < 2 THEN Len(unescaped) ELSE 2)
    IN (IF IsImageUrl(p.url) THEN <<p.url>> ELSE << >>)
            \o SelectSeq(two, LAMBDA u : u /= << >>)

\* C10 as stated: the image_urls of every ScrapeResult holds no URL twice.
C10_AllDeduplicated ==
    hasScraped => NoDup(scraped.image_urls)

\* C10 amended: the image_urls of every ScrapeResult other than a twitter result
\* holds no URL twice, and scrape_reddit returns each distinct discovered URL
\* exactly once, in discovery order.
C10_DeduplicatedExceptTwitter ==
    [][(~hasScraped /\ hasScraped') =>
            /\ scraped'.platform /= "twitter" => NoDup(scraped'.image_urls)
            /\ (pc = "reddit_response" /\ scraped'.error = None) =>
                    scraped'.image_urls = FirstOccurrences(Discovered(http.post))]_vars

\* C10 witness: a Reddit result in which a preview repeated the direct media URL
\* and a second preview added a new one.
C10_Witness ==
    /\ hasScraped
    /\ scraped.platform = "reddit"
    /\ scraped.image_urls = <<IMG_B, IMG_A>>

\* the parts of a host name that end in a dot, as written in HostTokens
Labels == {"www.", "old.", "m.", "mobile."}

\* the host with one leading "www." removed
WithoutLeadingWww(host) ==
    IF host /= << >> /\ Head(host) = "www." THEN Tail(host) ELSE host

\* host is the domain itself or a subdomain of it
InDomain(host, domain) ==
    /\ host /= << >>
    /\ host[Len(host)] = domain
    /\ \A i \in 1..(Len(host) - 1) : host[i] \in Labels

\* the platform the host names: the host is one of the platform's known hosts,
\* or lies in one of its known domains
PlatformOfHost(host) ==
    IF host \in {<<"twitter.com">>, <<"x.com">>, <<"mobile.", "twitter.com">>}
        THEN "twitter"
    ELSE IF InDomain(host, "reddit.com") THEN "reddit"
    ELSE IF host \in {<<"youtube.com">>, <<"youtu.be">>, <<"m.", "youtube.com">>}
        THEN "youtube"
    ELSE IF InDomain(host, "instagram.com") THEN "instagram"
    ELSE IF InDomain(host, "facebook.com") \/ host = <<"fb.com">> THEN "facebook"
    ELSE "unknown"

\* C11: detect_platform returns for every input string without raising, and
\* returns platform P exactly when the host, lower-cased and with a leading
\* "www." removed, is one of P's known hosts or lies in one of P's known
\* domains; every other input, a host that only contains a known domain as a
\* substring included, gives "unknown".
C11_HostMatchOnly ==
    pc = "detected" =>
        /\ raised = None
        /\ platform = PlatformOfHost(WithoutLeadingWww(Netloc(Lower(post.url))))

\* C12: login-wall detection and the login wait use the same notion of login
\* indicator: WaitForLogin is entered exactly when _is_login_page holds for the
\* current URL, and the wait completes only on a URL that _is_login_page no
\* longer counts as a login wall.
C12_SameLoginNotion ==
    /\ (pc = "pw_wait" /\ polls = 0) => is_login_page(pageUrl, platform)
    /\ (pc = "pw_extract" /\ "WaitForLogin" \notin entered) =>
            ~is_login_page(pageUrl, platform)
    /\ pc = "pw_regoto" => ~is_login_page(pageUrl, platform)

\* C13: every failed load of the target URL, the first navigation or the
\* re-navigation after a login wait, ends Failed with an error that carries the
\* navigation error, and the login-timeout message is reported only when the
\* login wait itself ran out.
C13_LoadFailureCarriesError ==
    /\ fault \in {"goto", "regoto"} =>
            /\ hasScraped
            /\ Contains(scraped.error, NavigationError)
    /\ (hasScraped /\ scraped.error = LoginTimeoutMessage) => fault = "login_wait"

====
